---------------------------- MODULE Spec2Model ----------------------------
(***************************************************************************)
(* A model of signatory's src/misc.cpp: the SigSpec constructor, the       *)
(* graded slicers slice_by_term / slice_at_stream, the layout converters   *)
(* transpose / transpose_reverse, the BackwardsInfo context with its       *)
(* PyCapsule handle, and the validators checkargs / checkargs_backward.    *)
(*                                                                         *)
(* A torch::Tensor is modelled as a strided view                           *)
(*     [sizes, strides, offset]                                            *)
(* over a backing storage whose element at address a is a itself, so two   *)
(* views show the same element at an index exactly when they address the   *)
(* same storage cell there.  Sizes are far below 2^63, so int64_t          *)
(* arithmetic is modelled by unbounded integers.                           *)
(***************************************************************************)
EXTENDS Integers, Sequences, FiniteSets, TLC

VARIABLES
    pc,               \* position of the caller in the specification at hand
    path,             \* checkargs / SigSpec argument: the path tensor
    depth,            \* checkargs / SigSpec argument
    basepoint,        \* checkargs / SigSpec argument
    stream,           \* SigSpec argument
    basepoint_value,  \* checkargs argument
    error,            \* what() of the exception the last call threw, or NoError
    sigspec,          \* the SigSpec in use
    tensor,           \* the tensor handed to a slicer or a layout converter
    dim,              \* slice_by_term's dim argument
    out,              \* the caller's std::vector<torch::Tensor> &out
    stream_index,     \* slice_at_stream's argument
    out_at,           \* slice_at_stream's &out
    transposed,       \* result of transpose
    restored,         \* result of transpose_reverse
    grad_out,         \* checkargs_backward argument
    num_channels,     \* checkargs_backward argument
    heap,             \* the BackwardsInfo objects allocated with new
    capsules,         \* the PyCapsule objects created by make_backwards_info
    made,             \* history: the arguments of each make_backwards_info call
    call              \* the last context operation with its arguments and result

vars == <<pc, path, depth, basepoint, stream, basepoint_value, error, sigspec, tensor,
          dim, out, stream_index, out_at, transposed, restored, grad_out,
          num_channels, heap, capsules, made, call>>

argVars   == <<path, depth, basepoint, stream, basepoint_value>>
sliceVars == <<tensor, dim, out, stream_index, out_at>>
layoutVars == <<transposed, restored>>
gradVars  == <<grad_out, num_channels>>
ctxVars   == <<heap, capsules, made, call>>

---------------------------------------------------------------------------
(* Bounds of the model.                                                    *)

MaxDim == 2          \* axis lengths of generated tensors are 0..MaxDim
MaxDepth == 3        \* depth arguments range up to MaxDepth
MaxChannels == 2     \* input_channels of the slicers' SigSpec
MaxAxis == 14        \* length of the axis handed to slice_by_term is 0..MaxAxis
MaxContexts == 2     \* make_backwards_info calls in one run

---------------------------------------------------------------------------
(* torch::Tensor as a strided view.                                        *)

RECURSIVE Product(_)
Product(s) == IF s = <<>> THEN 1 ELSE Head(s) * Product(Tail(s))

Max(a, b) == IF a >= b THEN a ELSE b

\* A freshly allocated (contiguous, row-major) tensor of the given sizes.
Contiguous(sizes) ==
    [sizes   |-> sizes,
     strides |-> [i \in 1..Len(sizes) |->
                     Product([j \in 1..(Len(sizes) - i) |-> Max(sizes[i + j], 1)])],
     offset  |-> 0]

ndimension(t) == Len(t.sizes)

\* Tensor::size(d), d counted from 0 as in the source.
size(t, d) == t.sizes[d + 1]

\* Tensor::narrow throws unless the range lies inside the axis.
NarrowInRange(t, d, start, len) ==
    /\ 0 <= d /\ d < ndimension(t)
    /\ 0 <= start /\ 0 <= len
    /\ start + len <= size(t, d)

narrow(t, d, start, len) ==
    [sizes   |-> [t.sizes EXCEPT ![d + 1] = len],
     strides |-> t.strides,
     offset  |-> t.offset + start * t.strides[d + 1]]

Swap(s, i, j) == [k \in 1..Len(s) |-> IF k = i THEN s[j] ELSE IF k = j THEN s[i] ELSE s[k]]

\* Tensor::transpose(d0, d1); the two-argument source name transpose is the
\* layout converter below.
tensor_transpose(t, d0, d1) ==
    [sizes   |-> Swap(t.sizes, d0 + 1, d1 + 1),
     strides |-> Swap(t.strides, d0 + 1, d1 + 1),
     offset  |-> t.offset]

Remove(s, i) == [k \in 1..(Len(s) - 1) |-> IF k < i THEN s[k] ELSE s[k + 1]]

\* Tensor::squeeze(d) removes axis d when its length is 1 and is a no-op otherwise.
squeeze(t, d) ==
    IF size(t, d) = 1
    THEN [sizes |-> Remove(t.sizes, d + 1), strides |-> Remove(t.strides, d + 1),
          offset |-> t.offset]
    ELSE t

\* The index tuples of a view (0-based per axis) and the storage cell each shows.
RECURSIVE Indices(_)
Indices(sizes) ==
    IF sizes = <<>> THEN {<<>>}
    ELSE {<<i>> \o rest : i \in 0..(Head(sizes) - 1), rest \in Indices(Tail(sizes))}

RECURSIVE Dot(_, _)
Dot(a, b) == IF a = <<>> THEN 0 ELSE Head(a) * Head(b) + Dot(Tail(a), Tail(b))

At(t, idx) == t.offset + Dot(idx, t.strides)

\* All shapes with the given number of axes, each axis 0..MaxDim long.
RECURSIVE Shapes(_)
Shapes(rank) ==
    IF rank = 0 THEN {<<>>}
    ELSE {<<n>> \o rest : n \in 0..MaxDim, rest \in Shapes(rank - 1)}

---------------------------------------------------------------------------
(* SigSpec.                                                                *)

RECURSIVE Pow(_, _)
Pow(b, e) == IF e = 0 THEN 1 ELSE b * Pow(b, e - 1)

\* utilities.hpp's signature_channels: the sum of channels^i for i = 1..depth.
RECURSIVE signature_channels(_, _)
signature_channels(input_channels, d) ==
    IF d <= 0 THEN 0
    ELSE signature_channels(input_channels, d - 1) + Pow(input_channels, d)

\* Floating-point values that matter here are the rationals 1/n; a value is
\* the pair <<numerator, denominator>>.
ones(n) == [k \in 1..n |-> <<1, 1>>]

\* torch::linspace(start, end, steps): start + k * (end - start) / (steps - 1).
linspace(start, end, steps) ==
    [k \in 1..steps |->
        IF steps = 1 THEN <<start, 1>>
        ELSE <<start * (steps - 1) + (k - 1) * (end - start), steps - 1>>]

\* Elementwise a /= b.
Divide(a, b) == [k \in 1..Len(a) |-> <<a[k][1] * b[k][2], a[k][2] * b[k][1]>>]

\* SigSpec that subtracts one from the stream size even with a basepoint.
SigSpec_ignores_basepoint(p, d, s, b) ==
    [input_stream_size  |-> size(p, 0),
     input_channels     |-> size(p, 1),
     batch_size         |-> size(p, 2),
     output_stream_size |-> size(p, 0) - 1,
     output_channels    |-> signature_channels(size(p, 1), d),
     n_output_dims      |-> IF s THEN 3 ELSE 2,
     depth              |-> d,
     reciprocals        |-> IF d > 1
                            THEN Divide(ones(d - 1), linspace(2, d, d - 1))
                            ELSE ones(d - 1),
     stream             |-> s,
     basepoint          |-> b]

SigSpec(p, d, s, b) ==
    [input_stream_size  |-> size(p, 0),
     input_channels     |-> size(p, 1),
     batch_size         |-> size(p, 2),
     output_stream_size |-> size(p, 0) - (IF b THEN 0 ELSE 1),
     output_channels    |-> signature_channels(size(p, 1), d),
     n_output_dims      |-> IF s THEN 3 ELSE 2,
     depth              |-> d,
     reciprocals        |-> IF d > 1
                            THEN Divide(ones(d - 1), linspace(2, d, d - 1))
                            ELSE ones(d - 1),
     stream             |-> s,
     basepoint          |-> b]

---------------------------------------------------------------------------
(* Validators.                                                             *)

NoError == "no error"
PathRankMessage ==
    "Argument 'path' must be a 3-dimensional tensor, with dimensions corresponding to (batch, stream, channel) respectively."
PathZeroMessage == "Argument 'path' cannot have dimensions of size zero."
PathStreamMessage ==
    "Argument 'path' must have stream dimension of size at least 2. (Need at least this many points to define a path.)"
DepthMessage == "Argument 'depth' must be an integer greater than or equal to one."
BasepointRankMessage ==
    "Argument 'basepoint' must be a 2-dimensional tensor, corresponding to (batch, channel) respectively."
BasepointSizeMessage == "Arguments 'basepoint' and 'path' must have dimensions of the same size."

\* checkargs with the depth check moved before the stream-length check.
checkargs_depth_first(p, d, b, bv) ==
    IF ndimension(p) # 3 THEN PathRankMessage
    ELSE IF size(p, 0) = 0 \/ size(p, 1) = 0 \/ size(p, 2) = 0 THEN PathZeroMessage
    ELSE IF d < 1 THEN DepthMessage
    ELSE IF ~b /\ size(p, 1) = 1 THEN PathStreamMessage
    ELSE IF b /\ ndimension(bv) # 2 THEN BasepointRankMessage
    ELSE IF b /\ (size(bv, 0) # size(p, 0) \/ size(bv, 1) # size(p, 2))
         THEN BasepointSizeMessage
    ELSE NoError

\* checkargs without the stream-length check.
checkargs_no_stream_check(p, d, b, bv) ==
    IF ndimension(p) # 3 THEN PathRankMessage
    ELSE IF size(p, 0) = 0 \/ size(p, 1) = 0 \/ size(p, 2) = 0 THEN PathZeroMessage
    ELSE IF d < 1 THEN DepthMessage
    ELSE IF b /\ ndimension(bv) # 2 THEN BasepointRankMessage
    ELSE IF b /\ (size(bv, 0) # size(p, 0) \/ size(bv, 1) # size(p, 2))
         THEN BasepointSizeMessage
    ELSE NoError

checkargs(p, d, b, bv) ==
    IF ndimension(p) # 3 THEN PathRankMessage
    ELSE IF size(p, 0) = 0 \/ size(p, 1) = 0 \/ size(p, 2) = 0 THEN PathZeroMessage
    ELSE IF ~b /\ size(p, 1) = 1 THEN PathStreamMessage
    ELSE IF d < 1 THEN DepthMessage
    ELSE IF b /\ ndimension(bv) # 2 THEN BasepointRankMessage
    ELSE IF b /\ (size(bv, 0) # size(p, 0) \/ size(bv, 1) # size(p, 2))
         THEN BasepointSizeMessage
    ELSE NoError


GradientRank3Message ==
    "Gradient must be a 3-dimensional tensor, with dimensions corresponding to (batch, stream, channel) respectively."
GradientRank2Message ==
    "Gradient must be a 2-dimensional tensor, with dimensionscorresponding to (batch, channel) respectively."
GradientSizeMessage == "Gradient has the wrong size."

\* checkargs_backward that never resolves the -1 default.
checkargs_backward_no_default(g, spec, nc) ==
    IF spec.stream
    THEN IF ndimension(g) # 3 THEN GradientRank3Message
         ELSE IF size(g, 0) # spec.batch_size
                 \/ size(g, 1) # spec.output_stream_size
                 \/ size(g, 2) # nc
              THEN GradientSizeMessage
         ELSE NoError
    ELSE IF ndimension(g) # 2 THEN GradientRank2Message
         ELSE IF size(g, 0) # spec.batch_size \/ size(g, 1) # nc
              THEN GradientSizeMessage
         ELSE NoError

checkargs_backward(g, spec, nc) ==
    LET n == IF nc = -1 THEN spec.output_channels ELSE nc
    IN  IF spec.stream
        THEN IF ndimension(g) # 3 THEN GradientRank3Message
             ELSE IF size(g, 0) # spec.batch_size
                     \/ size(g, 1) # spec.output_stream_size
                     \/ size(g, 2) # n
                  THEN GradientSizeMessage
             ELSE NoError
        ELSE IF ndimension(g) # 2 THEN GradientRank2Message
             ELSE IF size(g, 0) # spec.batch_size \/ size(g, 1) # n
                  THEN GradientSizeMessage
             ELSE NoError

---------------------------------------------------------------------------
(* Graded slicers.  A call yields the final contents of &out and whether   *)
(* a Tensor::narrow inside it threw.                                       *)

TorchRangeError == "torch: narrow out of range"

RECURSIVE slice_by_term_loop(_, _, _, _, _, _, _)
slice_by_term_loop(in, acc, d, spec, i, current_memory_pos, current_memory_length) ==
    IF ~(i < spec.depth) THEN [out |-> acc, threw |-> FALSE]
    ELSE IF ~NarrowInRange(in, d, current_memory_pos, current_memory_length)
         THEN [out |-> acc, threw |-> TRUE]
    ELSE slice_by_term_loop(
             in,
             Append(acc, narrow(in, d, current_memory_pos, current_memory_length)),
             d, spec, i + 1,
             current_memory_pos + current_memory_length,
             current_memory_length * spec.input_channels)

\* slice_by_term without out.clear().
slice_by_term_no_clear(in, out0, d, spec) ==
    slice_by_term_loop(in, out0, d, spec, 0, 0, spec.input_channels)

\* out0 is what &out held on entry; out.clear() discards it.
slice_by_term(in, out0, d, spec) ==
    slice_by_term_loop(in, SubSeq(out0, 1, 0), d, spec, 0, 0, spec.input_channels)

RECURSIVE slice_at_stream_loop(_, _, _)
slice_at_stream_loop(in, acc, index) ==
    IF in = <<>> THEN [out |-> acc, threw |-> FALSE]
    ELSE IF ~NarrowInRange(Head(in), 0, index, 1) THEN [out |-> acc, threw |-> TRUE]
    ELSE slice_at_stream_loop(
             Tail(in), Append(acc, squeeze(narrow(Head(in), 0, index, 1), 0)), index)

\* slice_at_stream that narrows without removing the stream axis.
slice_at_stream_no_squeeze(in, out0, index) ==
    [out |-> [i \in 1..Len(in) |-> narrow(in[i], 0, index, 1)], threw |-> FALSE]

slice_at_stream(in, out0, index) ==
    slice_at_stream_loop(in, SubSeq(out0, 1, 0), index)

---------------------------------------------------------------------------
(* Layout converters.                                                      *)

transpose(t, spec) ==
    IF spec.stream
    THEN tensor_transpose(tensor_transpose(t, 1, 2), 0, 1)
    ELSE tensor_transpose(t, 0, 1)

\* transpose_reverse applying transpose's own permutation.
transpose_reverse_same_order(t, spec) ==
    IF spec.stream
    THEN tensor_transpose(tensor_transpose(t, 1, 2), 0, 1)
    ELSE tensor_transpose(t, 0, 1)

transpose_reverse(t, spec) ==
    IF spec.stream
    THEN tensor_transpose(tensor_transpose(t, 0, 1), 1, 2)
    ELSE tensor_transpose(t, 0, 1)

is_even(index) == (index % 2) = 0

\* The forward pass turns the caller's (batch, stream, channel) path into the
\* internal (stream, channel, batch) layout before it builds the SigSpec.
ExternalToInternal(p) == tensor_transpose(tensor_transpose(p, 0, 1), 1, 2)

---------------------------------------------------------------------------
(* BackwardsInfo and its PyCapsule.                                        *)

backwards_info_capsule_name == "signatory.BackwardsInfoCapsule"

NULL == 0

LogSignatureMode == {"Expand", "Brackets", "Words"}

\* The constructor initialises the four base members; signature_vector and
\* transforms are default-constructed (empty), while mode and
\* logsignature_channels have no initialiser: their values are indeterminate
\* and are supplied by the caller of this operator as a choice.
BackwardsInfo(spec, out_vector, o, path_increments, indeterminate) ==
    [sigspec               |-> spec,
     out_vector            |-> out_vector,
     out                   |-> o,
     path_increments       |-> path_increments,
     signature_vector      |-> <<>>,
     transforms            |-> <<>>,
     mode                  |-> indeterminate.mode,
     logsignature_channels |-> indeterminate.logsignature_channels]

\* set_logsignature_data that stores the signature vector over out_vector.
set_logsignature_data_overwrites(info, signature_vector_, transforms_, mode_, logsignature_channels_) ==
    [info EXCEPT !.out_vector = signature_vector_,
                 !.signature_vector = signature_vector_,
                 !.transforms = transforms_,
                 !.mode = mode_,
                 !.logsignature_channels = logsignature_channels_]

set_logsignature_data(info, signature_vector_, transforms_, mode_, logsignature_channels_) ==
    [info EXCEPT !.signature_vector = signature_vector_,
                 !.transforms = transforms_,
                 !.mode = mode_,
                 !.logsignature_channels = logsignature_channels_]

\* PyCapsule_New: a new object holding one reference.
PyCapsule_New(pointer, name, destructor) ==
    [pointer |-> pointer, name |-> name, destructor |-> destructor, refcount |-> 1]

\* PyCapsule_GetPointer: the stored pointer when the names agree; otherwise
\* NULL with the Python error indicator set.
PyCapsule_GetPointer(capsule, name) ==
    IF capsule.name = name
    THEN [pointer |-> capsule.pointer, pyerr |-> FALSE]
    ELSE [pointer |-> NULL, pyerr |-> TRUE]

\* get_backwards_info casts and returns whatever PyCapsule_GetPointer gave:
\* it is an ordinary return in both cases, nothing is thrown.
get_backwards_info(capsule) ==
    LET got == PyCapsule_GetPointer(capsule, backwards_info_capsule_name)
    IN  [returned |-> got.pointer, threw |-> FALSE, pyerr |-> got.pyerr]

\* The heap after `delete p`: deleting a null pointer does nothing.
Delete(h, p) ==
    IF p = NULL THEN h
    ELSE [h EXCEPT ![p].live = FALSE, ![p].frees = h[p].frees + 1]

\* A destructor that looks the pointer up and does not delete it.
BackwardsInfoCapsuleDestructor_leak(h, capsule) == h

BackwardsInfoCapsuleDestructor(h, capsule) ==
    Delete(h, PyCapsule_GetPointer(capsule, backwards_info_capsule_name).pointer)

\* make_backwards_info: new BackwardsInfo{...} wrapped by PyCapsule_New; the
\* py::object steals the capsule's single reference.
make_backwards_info(h, out_vector, o, path_increments, spec, indeterminate) ==
    LET p == Len(h) + 1
    IN  [heap    |-> Append(h, [live |-> TRUE, frees |-> 0,
                                info |-> BackwardsInfo(spec, out_vector, o,
                                                       path_increments, indeterminate)]),
         capsule |-> PyCapsule_New(p, backwards_info_capsule_name,
                                   "BackwardsInfoCapsuleDestructor")]


---------------------------------------------------------------------------
(* Initial state: nothing has been called yet.                             *)

Unset == [unset |-> TRUE]

Init ==
    /\ pc = "start"
    /\ path = Unset /\ depth = 0 /\ basepoint = FALSE /\ stream = FALSE
    /\ basepoint_value = Unset
    /\ error = NoError
    /\ sigspec = Unset
    /\ tensor = Unset /\ dim = 0 /\ stream_index = 0 /\ out_at = <<>>
    /\ out \in {<<>>, <<Contiguous(<<1>>)>>}  \* the caller's vector may hold old views
    /\ transposed = Unset /\ restored = Unset
    /\ grad_out = Unset /\ num_channels = -1
    /\ heap = <<>> /\ capsules = <<>> /\ made = <<>> /\ call = [op |-> "none"]

TensorsOfRanks(ranks) == {Contiguous(s) : s \in UNION {Shapes(r) : r \in ranks}}

---------------------------------------------------------------------------
(* The forward pass's use of the validator: checkargs on the caller's      *)
(* arguments, then, if it did not throw, the SigSpec of the path in        *)
(* internal layout and slice_by_term on a buffer that SigSpec describes.   *)

PathTensors == TensorsOfRanks({2, 3, 4})
BasepointTensors == TensorsOfRanks({1, 2, 3})
Depths == -1..MaxDepth

Checkargs ==
    /\ pc = "start"
    /\ \E p \in PathTensors, d \in Depths, b \in BOOLEAN, bv \in BasepointTensors :
          /\ path' = p /\ depth' = d /\ basepoint' = b /\ basepoint_value' = bv
          /\ error' = checkargs(p, d, b, bv)
    /\ pc' = "checkargs"
    /\ UNCHANGED <<stream, sigspec, sliceVars, layoutVars, gradVars, ctxVars>>

ForwardSigSpec ==
    /\ pc = "checkargs" /\ error = NoError
    /\ \E s \in BOOLEAN :
          /\ stream' = s
          /\ sigspec' = SigSpec(ExternalToInternal(path), depth, s, basepoint)
    /\ pc' = "sigspec"
    /\ UNCHANGED <<path, depth, basepoint, basepoint_value, error, sliceVars, layoutVars, gradVars, ctxVars>>

\* The signature buffer in internal layout: (stream, channel, batch) when
\* stream is set, else (channel, batch); its channel axis is sliced by term.
ForwardBuffer(spec) ==
    IF spec.stream
    THEN Contiguous(<<spec.output_stream_size, spec.output_channels, spec.batch_size>>)
    ELSE Contiguous(<<spec.output_channels, spec.batch_size>>)

ForwardSlice ==
    /\ pc = "sigspec"
    /\ LET buffer == ForwardBuffer(sigspec)
           d == IF sigspec.stream THEN 1 ELSE 0
           r == slice_by_term(buffer, out, d, sigspec)
       IN  /\ tensor' = buffer /\ dim' = d /\ out' = r.out
           /\ error' = IF r.threw THEN TorchRangeError ELSE NoError
    /\ pc' = "slice_by_term"
    /\ UNCHANGED <<argVars, sigspec, stream_index, out_at, layoutVars, gradVars, ctxVars>>

NextCheckargs == Checkargs \/ ForwardSigSpec \/ ForwardSlice

SpecCheckargs == Init /\ [][NextCheckargs]_vars

---------------------------------------------------------------------------
(* SigSpec construction on any 3-axis path, and the backward pass's        *)
(* validation of a gradient against it.                                    *)

NewSigSpec ==
    /\ pc = "start"
    /\ \E p \in TensorsOfRanks({3}), d \in 1..MaxDepth, s \in BOOLEAN, b \in BOOLEAN :
          /\ path' = p /\ depth' = d /\ basepoint' = b /\ stream' = s
          /\ sigspec' = SigSpec(p, d, s, b)
    /\ pc' = "SigSpec"
    /\ UNCHANGED <<basepoint_value, error, sliceVars, layoutVars, gradVars, ctxVars>>

GradTensors == TensorsOfRanks({1, 2, 3})
NumChannels == {-1} \cup 0..MaxDim

CheckargsBackward ==
    /\ pc = "SigSpec"
    /\ \E g \in GradTensors, nc \in NumChannels :
          /\ grad_out' = g /\ num_channels' = nc
          /\ error' = checkargs_backward(g, sigspec, nc)
    /\ pc' = "checkargs_backward"
    /\ UNCHANGED <<argVars, sigspec, sliceVars, layoutVars, ctxVars>>

NextSigSpec == NewSigSpec \/ CheckargsBackward

SpecSigSpec == Init /\ [][NextSigSpec]_vars


---------------------------------------------------------------------------
(* The graded slicers on their own: slice_by_term on a tensor one of whose *)
(* axes is the term axis, then slice_at_stream on its result.              *)

\* Tensors whose axis `d` is n long: (stream, term, batch), (stream, batch,
\* term) and (term, batch), freshly allocated.
SliceTensors(n) ==
    {[t |-> Contiguous(<<s, n, b>>), d |-> 1] : s \in 1..MaxDim, b \in 1..MaxDim}
    \cup {[t |-> Contiguous(<<s, b, n>>), d |-> 2] : s \in 1..MaxDim, b \in 1..MaxDim}
    \cup {[t |-> Contiguous(<<n, b>>), d |-> 0] : b \in 1..MaxDim}

SliceByTerm ==
    /\ pc = "start"
    /\ \E c \in 1..MaxChannels, d \in 1..MaxDepth, n \in 0..MaxAxis :
          \E in \in SliceTensors(n) :
             LET spec == SigSpec(Contiguous(<<2, c, 1>>), d, in.d # 0, FALSE)
                 r == slice_by_term(in.t, out, in.d, spec)
             IN  /\ sigspec' = spec /\ tensor' = in.t /\ dim' = in.d
                 /\ out' = r.out
                 /\ error' = IF r.threw THEN TorchRangeError ELSE NoError
    /\ pc' = "slice_by_term"
    /\ UNCHANGED <<argVars, stream_index, out_at, layoutVars, gradVars, ctxVars>>

SliceAtStream ==
    /\ pc \in {"slice_by_term", "slice_at_stream"}
    /\ pc = "slice_by_term" => error = NoError
    /\ \E index \in 0..MaxDim :
          LET r == slice_at_stream(out, out_at, index)
          IN  /\ stream_index' = index
              /\ out_at' = r.out
              /\ error' = IF r.threw THEN TorchRangeError ELSE NoError
    /\ pc' = "slice_at_stream"
    /\ UNCHANGED <<argVars, sigspec, tensor, dim, out, layoutVars, gradVars, ctxVars>>

NextSlice == SliceByTerm \/ SliceAtStream

SpecSlice == Init /\ [][NextSlice]_vars

---------------------------------------------------------------------------
(* The layout converters: transpose, then transpose_reverse on its result. *)

\* Views of the given number of axes: fresh tensors, and views of them with
\* swapped axes or a non-zero offset.
LayoutInputs(rank) ==
    LET fresh == TensorsOfRanks({rank})
    IN  fresh
        \cup {tensor_transpose(t, 0, 1) : t \in fresh}
        \cup {narrow(t, 0, 1, size(t, 0) - 1) : t \in {u \in fresh : size(u, 0) >= 1}}

Transpose ==
    /\ pc = "start"
    /\ \E s \in BOOLEAN :
          \E x \in LayoutInputs(IF s THEN 3 ELSE 2) :
             LET spec == SigSpec(Contiguous(<<2, 1, 1>>), 1, s, FALSE)
             IN  /\ sigspec' = spec /\ tensor' = x
                 /\ transposed' = transpose(x, spec)
    /\ pc' = "transpose"
    /\ UNCHANGED <<argVars, error, dim, out, stream_index, out_at, restored,
                   gradVars, ctxVars>>

TransposeReverse ==
    /\ pc = "transpose"
    /\ restored' = transpose_reverse(transposed, sigspec)
    /\ pc' = "transpose_reverse"
    /\ UNCHANGED <<argVars, error, sigspec, sliceVars, transposed, gradVars, ctxVars>>

NextLayout == Transpose \/ TransposeReverse

SpecLayout == Init /\ [][NextLayout]_vars

---------------------------------------------------------------------------
(* The context and its handle: make_backwards_info in the forward pass,    *)
(* get_backwards_info and set_logsignature_data by whoever holds a handle, *)
(* and the release of the handle's reference, which runs the destructor.   *)

\* What a forward pass hands to make_backwards_info for a given SigSpec.
ContextArgs(spec) ==
    LET o == Contiguous(<<spec.output_channels, spec.batch_size>>)
    IN  [sigspec         |-> spec,
         out_vector      |-> slice_by_term(o, <<>>, 0, spec).out,
         out             |-> o,
         path_increments |-> Contiguous(<<spec.input_stream_size - 1,
                                          spec.input_channels, spec.batch_size>>)]

ContextSigSpecs == {SigSpec(Contiguous(<<2, c, 1>>), 2, FALSE, FALSE) : c \in {1, 2}}

\* Values the uninitialised members mode and logsignature_channels may hold.
Indeterminate ==
    {[mode |-> "Expand", logsignature_channels |-> 0],
     [mode |-> "Words", logsignature_channels |-> -1]}

LogSignatureArgs ==
    {[signature_vector |-> <<>>, transforms |-> <<>>,
      mode |-> "Expand", logsignature_channels |-> 1],
     [signature_vector |-> <<Contiguous(<<1, 1>>)>>, transforms |-> << <<0, 1, 2>> >>,
      mode |-> "Brackets", logsignature_channels |-> 2],
     [signature_vector |-> <<Contiguous(<<2, 1>>), Contiguous(<<4, 1>>)>>,
      transforms |-> << <<0, 2, 6>>, <<1, 2, 3>> >>,
      mode |-> "Words", logsignature_channels |-> 3]}

\* A capsule some other extension made: its name is not ours.
ForeignCapsule == PyCapsule_New(-1, "other.Capsule", "none")

MakeBackwardsInfo ==
    /\ Len(heap) < MaxContexts
    /\ \E spec \in ContextSigSpecs, i \in Indeterminate :
          LET a == ContextArgs(spec)
              r == make_backwards_info(heap, a.out_vector, a.out, a.path_increments,
                                       a.sigspec, i)
          IN  /\ heap' = r.heap
              /\ capsules' = Append(capsules, r.capsule)
              /\ made' = Append(made, a)
              /\ call' = [op |-> "make_backwards_info", capsule |-> Len(capsules) + 1]
    /\ UNCHANGED <<pc, argVars, error, sigspec, sliceVars, layoutVars, gradVars>>

\* The handles a caller can pass: a py::object owns a reference, so one of
\* our capsules is passed only while its reference count is positive.
Handles ==
    {[capsule |-> k, object |-> capsules[k]] :
        k \in {j \in DOMAIN capsules : capsules[j].refcount > 0}}
    \cup {[capsule |-> 0, object |-> ForeignCapsule]}

GetBackwardsInfo ==
    /\ \E h \in Handles :
          call' = [op |-> "get_backwards_info", capsule |-> h.capsule,
                   handle |-> h.object, result |-> get_backwards_info(h.object)]
    /\ UNCHANGED <<pc, argVars, error, sigspec, sliceVars, layoutVars, gradVars,
                   heap, capsules, made>>

\* The backward pass calls set_logsignature_data through the pointer it has
\* just got, while it still holds the handle.
SetLogsignatureData ==
    /\ call.op = "get_backwards_info"
    /\ call.result.returned # NULL
    /\ heap[call.result.returned].live
    /\ \E a \in LogSignatureArgs :
          LET p == call.result.returned
          IN  /\ heap' = [heap EXCEPT ![p].info =
                             set_logsignature_data(heap[p].info, a.signature_vector,
                                                   a.transforms, a.mode,
                                                   a.logsignature_channels)]
              /\ call' = [op |-> "set_logsignature_data", capsule |-> call.capsule,
                          pointer |-> p, args |-> a]
    /\ UNCHANGED <<pc, argVars, error, sigspec, sliceVars, layoutVars, gradVars,
                   capsules, made>>

\* The owner drops the capsule's only reference; the count reaches zero and
\* the capsule's destructor runs.
Release ==
    /\ \E k \in DOMAIN capsules :
          /\ capsules[k].refcount > 0
          /\ capsules' = [capsules EXCEPT ![k].refcount = capsules[k].refcount - 1]
          /\ heap' = IF capsules[k].refcount = 1
                     THEN BackwardsInfoCapsuleDestructor(heap, capsules[k])
                     ELSE heap
          /\ call' = [op |-> "release", capsule |-> k]
    /\ UNCHANGED <<pc, argVars, error, sigspec, sliceVars, layoutVars, gradVars, made>>

NextContext == MakeBackwardsInfo \/ GetBackwardsInfo \/ SetLogsignatureData \/ Release

SpecContext == Init /\ [][NextContext]_vars


---------------------------------------------------------------------------
(* Properties.                                                             *)

Min(S) == CHOOSE x \in S : \A y \in S : x <= y

\* The six conditions of checkargs, as stated for the external
\* (batch, sequence, channel) layout; a condition about an axis that does
\* not exist counts as violated.
PathHasThreeAxes == Len(path.sizes) = 3
NoZeroAxis == \A i \in DOMAIN path.sizes : path.sizes[i] # 0
SequenceLongEnough == basepoint \/ (Len(path.sizes) >= 2 /\ path.sizes[2] >= 2)
DepthPositive == depth >= 1
BasepointHasTwoAxes == basepoint => Len(basepoint_value.sizes) = 2
BasepointMatchesPath ==
    basepoint =>
        /\ Len(basepoint_value.sizes) = 2 /\ Len(path.sizes) = 3
        /\ basepoint_value.sizes[1] = path.sizes[1]
        /\ basepoint_value.sizes[2] = path.sizes[3]

CheckargsViolated ==
    {k \in 1..6 :
        ~ <<PathHasThreeAxes, NoZeroAxis, SequenceLongEnough, DepthPositive,
            BasepointHasTwoAxes, BasepointMatchesPath>>[k]}

CheckargsMessages ==
    <<PathRankMessage, PathZeroMessage, PathStreamMessage, DepthMessage,
      BasepointRankMessage, BasepointSizeMessage>>

\* C1: checkargs throws the message of the first violated condition, in the
\* order rank, zero axis, sequence length, depth, basepoint rank, basepoint
\* size, and returns without error when no condition is violated.
C1_FirstViolation ==
    pc = "checkargs" =>
        error = IF CheckargsViolated = {} THEN NoError
                ELSE CheckargsMessages[Min(CheckargsViolated)]

\* A call that violates both the sequence-length and the depth condition and
\* reports the sequence length.
C1_Witness ==
    /\ pc = "checkargs"
    /\ CheckargsViolated = {3, 4}
    /\ error = PathStreamMessage

\* C10: after checkargs accepted the arguments, the SigSpec of the path in
\* internal layout has output_stream_size, input_channels, batch_size and
\* depth all at least 1, and slice_by_term on the output_channels axis
\* narrows within bounds and yields depth non-empty views.
C10_AcceptedIsSliceable ==
    /\ pc \in {"sigspec", "slice_by_term"} =>
          /\ sigspec.output_stream_size >= 1
          /\ sigspec.input_channels >= 1
          /\ sigspec.batch_size >= 1
          /\ sigspec.depth >= 1
    /\ pc = "slice_by_term" =>
          /\ error = NoError
          /\ Len(out) = sigspec.depth
          /\ \A i \in DOMAIN out : \A a \in DOMAIN out[i].sizes : out[i].sizes[a] >= 1

\* An accepted basepoint-free path of the least sequence length, sliced.
C10_Witness ==
    /\ pc = "slice_by_term"
    /\ ~basepoint /\ path.sizes[2] = 2
    /\ sigspec.output_stream_size = 1
    /\ Len(out) >= 2

\* C9: the SigSpec's fields are the path's axes 0, 1, 2, the output stream
\* size is the input's less one unless there is a basepoint, n_output_dims
\* is 3 with stream and 2 without, and reciprocals are 1/2, ..., 1/depth.
C9_SigSpecFields ==
    pc = "SigSpec" =>
        /\ sigspec.input_stream_size = path.sizes[1]
        /\ sigspec.input_channels = path.sizes[2]
        /\ sigspec.batch_size = path.sizes[3]
        /\ sigspec.output_stream_size = path.sizes[1] - (IF basepoint THEN 0 ELSE 1)
        /\ sigspec.n_output_dims = (IF stream THEN 3 ELSE 2)
        /\ Len(sigspec.reciprocals) = depth - 1
        /\ \A k \in 0..(depth - 2) :
              LET r == sigspec.reciprocals[k + 1]
              IN  r[2] # 0 /\ r[1] * (k + 2) = r[2]

\* A SigSpec without basepoint whose reciprocals hold more than one element.
C9_Witness ==
    /\ pc = "SigSpec"
    /\ ~basepoint /\ depth >= 3 /\ stream
    /\ Len(sigspec.reciprocals) >= 2

GradExpectedSizes ==
    LET n == IF num_channels = -1 THEN sigspec.output_channels ELSE num_channels
    IN  IF sigspec.stream
        THEN <<sigspec.batch_size, sigspec.output_stream_size, n>>
        ELSE <<sigspec.batch_size, n>>

\* C2: checkargs_backward accepts exactly the gradients whose sizes are
\* (batch_size, output_stream_size, n) with stream and (batch_size, n)
\* without, n being output_channels for num_channels = -1; it throws the
\* rank message for a wrong rank and "Gradient has the wrong size."
\* otherwise.
C2_GradientAccepted ==
    pc = "checkargs_backward" =>
        /\ error = NoError <=> grad_out.sizes = GradExpectedSizes
        /\ grad_out.sizes # GradExpectedSizes =>
              error = IF Len(grad_out.sizes) # Len(GradExpectedSizes)
                      THEN (IF sigspec.stream THEN GradientRank3Message
                            ELSE GradientRank2Message)
                      ELSE GradientSizeMessage

\* A streamed gradient accepted against the default channel count.
C2_Witness ==
    /\ pc = "checkargs_backward"
    /\ sigspec.stream /\ num_channels = -1
    /\ error = NoError

\* Offset and length of the degree-i block on an axis of `channels`.
RECURSIVE BlockStart(_, _)
BlockStart(channels, i) ==
    IF i <= 1 THEN 0 ELSE BlockStart(channels, i - 1) + Pow(channels, i - 1)

BlockIndices(channels, i) ==
    BlockStart(channels, i)..(BlockStart(channels, i) + Pow(channels, i) - 1)

Cells(t) == {At(t, idx) : idx \in Indices(t.sizes)}

\* C3: on an axis as long as the sum of channels^i for i = 1..depth,
\* slice_by_term leaves exactly depth views in out, the i-th starting at the
\* sum of channels^j for j < i and channels^i long; the views are pairwise
\* disjoint and cover every index of the axis, and every cell of the
\* tensor, exactly once.
C3_TermViews ==
    (pc = "slice_by_term"
       /\ size(tensor, dim) = BlockStart(sigspec.input_channels, sigspec.depth + 1)) =>
        LET c == sigspec.input_channels
        IN  /\ error = NoError
            /\ Len(out) = sigspec.depth
            /\ \A i \in 1..sigspec.depth :
                  /\ out[i].sizes = [tensor.sizes EXCEPT ![dim + 1] = Pow(c, i)]
                  /\ out[i].strides = tensor.strides
                  /\ out[i].offset =
                        tensor.offset + BlockStart(c, i) * tensor.strides[dim + 1]
            /\ \A x \in 0..(size(tensor, dim) - 1) :
                  Cardinality({i \in 1..sigspec.depth : x \in BlockIndices(c, i)}) = 1
            /\ \A i, j \in DOMAIN out : i # j => Cells(out[i]) \cap Cells(out[j]) = {}
            /\ UNION {Cells(out[i]) : i \in DOMAIN out} = Cells(tensor)

\* Two channels at depth three: blocks of 2, 4 and 8 on an axis of 14.
C3_Witness ==
    /\ pc = "slice_by_term"
    /\ sigspec.input_channels = 2 /\ sigspec.depth = 3
    /\ size(tensor, dim) = 14
    /\ Len(out) = 3

\* C8: for a valid stream_index, slice_at_stream on slice_by_term's views
\* yields as many views, the i-th being the degree-i block of the tensor
\* narrowed to stream_index along its leading axis with that axis removed.
C8_SliceCommutes ==
    (pc = "slice_at_stream" /\ dim >= 1 /\ stream_index < size(tensor, 0)) =>
        LET c == sigspec.input_channels
            at == squeeze(narrow(tensor, 0, stream_index, 1), 0)
        IN  /\ error = NoError
            /\ Len(out_at) = Len(out)
            /\ Len(out_at) = sigspec.depth
            /\ \A i \in DOMAIN out_at :
                  out_at[i] = narrow(at, dim - 1, BlockStart(c, i), Pow(c, i))

\* The last position of a stream of two, on a tensor with three blocks.
C8_Witness ==
    /\ pc = "slice_at_stream"
    /\ dim >= 1 /\ size(tensor, 0) = 2 /\ stream_index = 1
    /\ Len(out_at) = 3

\* C4: transpose_reverse undoes transpose (same sizes, same element at every
\* index), and transpose takes (stream, channel, batch) to
\* (batch, stream, channel) with stream and (channel, batch) to
\* (batch, channel) without.
C4_LayoutRoundTrip ==
    /\ pc = "transpose_reverse" =>
          /\ restored.sizes = tensor.sizes
          /\ \A idx \in Indices(tensor.sizes) : At(restored, idx) = At(tensor, idx)
    /\ (pc \in {"transpose", "transpose_reverse"} /\ sigspec.stream) =>
          /\ transposed.sizes = <<tensor.sizes[3], tensor.sizes[1], tensor.sizes[2]>>
          /\ \A idx \in Indices(tensor.sizes) :
                At(transposed, <<idx[3], idx[1], idx[2]>>) = At(tensor, idx)
    /\ (pc \in {"transpose", "transpose_reverse"} /\ ~sigspec.stream) =>
          /\ transposed.sizes = <<tensor.sizes[2], tensor.sizes[1]>>
          /\ \A idx \in Indices(tensor.sizes) :
                At(transposed, <<idx[2], idx[1]>>) = At(tensor, idx)

\* A streamed view with unequal axis lengths and a non-zero offset, converted
\* and converted back.
C4_Witness ==
    /\ pc = "transpose_reverse"
    /\ sigspec.stream
    /\ tensor.sizes = <<1, 2, 2>>
    /\ tensor.offset > 0
    /\ transposed.sizes = <<2, 1, 2>>

BaseFieldsAsMade(info, a) ==
    /\ info.sigspec = a.sigspec
    /\ info.out_vector = a.out_vector
    /\ info.out = a.out
    /\ info.path_increments = a.path_increments

C5_RoundTrip ==
    /\ (call.op = "get_backwards_info" /\ call.capsule # 0) =>
          /\ ~call.result.threw
          /\ call.result.returned \in DOMAIN heap
          /\ BaseFieldsAsMade(heap[call.result.returned].info, made[call.capsule])
    /\ call.op = "set_logsignature_data" =>
          LET info == heap[call.pointer].info
          IN  /\ info.signature_vector = call.args.signature_vector
              /\ info.transforms = call.args.transforms
              /\ info.mode = call.args.mode
              /\ info.logsignature_channels = call.args.logsignature_channels
              /\ BaseFieldsAsMade(info, made[call.capsule])

C5_Frame ==
    call'.op = "set_logsignature_data" =>
        \A p \in DOMAIN heap :
            /\ heap'[p].info.sigspec = heap[p].info.sigspec
            /\ heap'[p].info.out_vector = heap[p].info.out_vector
            /\ heap'[p].info.out = heap[p].info.out
            /\ heap'[p].info.path_increments = heap[p].info.path_increments

\* C5: get_backwards_info on a handle from make_backwards_info yields the
\* context holding the out, out_vector, path_increments and SigSpec passed
\* to make_backwards_info; set_logsignature_data sets signature_vector,
\* transforms, mode and logsignature_channels to its arguments and leaves
\* the four base fields as they were.
C5_ContextRoundTrip == []C5_RoundTrip /\ [][C5_Frame]_vars

\* The second context, retrieved and extended with the Words data.
C5_Witness ==
    /\ call.op = "set_logsignature_data"
    /\ call.capsule = 2
    /\ heap[2].info.mode = "Words"
    /\ heap[2].info.sigspec.input_channels = 2

\* C6: get_backwards_info on a handle whose name is not
\* backwards_info_capsule_name fails with an error outcome instead of
\* returning a (null) pointer to its caller as a normal result.
C6_MismatchFailsFast ==
    (call.op = "get_backwards_info" /\ call.handle.name # backwards_info_capsule_name) =>
        call.result.threw

C7_Lifecycle ==
    /\ Len(capsules) = Len(heap)
    /\ \A p \in DOMAIN heap :
          /\ Cardinality({k \in DOMAIN capsules : capsules[k].pointer = p}) = 1
          /\ heap[p].frees <= 1
          /\ heap[p].live <=> heap[p].frees = 0
    /\ \A k \in DOMAIN capsules :
          capsules[k].refcount = 0 <=> heap[capsules[k].pointer].frees = 1

C7_OnlyReleaseFrees ==
    \A p \in DOMAIN heap :
        heap'[p].frees # heap[p].frees =>
            /\ call'.op = "release"
            /\ capsules[call'.capsule].pointer = p
            /\ capsules[call'.capsule].refcount = 1
            /\ capsules'[call'.capsule].refcount = 0

\* C7: every context is deallocated exactly once, when its handle is
\* released and at no other time: get_backwards_info and
\* set_logsignature_data free nothing, nothing is freed twice, a released
\* handle's context has been freed, and each context has one handle.
C7_FreedOnceOnRelease == []C7_Lifecycle /\ [][C7_OnlyReleaseFrees]_vars

\* Two contexts, the first released and freed, the second still in use.
C7_Witness ==
    /\ Len(heap) = 2
    /\ capsules[1].refcount = 0 /\ heap[1].frees = 1
    /\ heap[2].live
    /\ call.op = "set_logsignature_data"

=============================================================================
